---------------------------- MODULE Spec2Model ----------------------------
(***************************************************************************)
(* Model of the cayley query core: the shape algebra and its optimizer     *)
(* (graph/shape), the Path builder (graph/shape/path.go) and the Sort      *)
(* iterators (graph/iterator).                                             *)
(*                                                                         *)
(* Shapes are records tagged by the field t.  The Go nil Shape and the     *)
(* Null{} struct are different values (IsNull accepts both, a method call  *)
(* on nil panics).  A slice of shapes is a sequence; where the code relies *)
(* on slice aliasing (the Path builder) slices live in an explicit heap.   *)
(***************************************************************************)
EXTENDS Integers, Sequences, FiniteSets, TLC

VARIABLES
    qs,      \* the backend: lookupQuadStore, a map quad.Value -> graph.Value
    shape,   \* the shape handed to the optimizer
    pc,      \* position of the optimizer run
    r1,      \* result of shape.Optimize(qs)
    r2,      \* result of optimizing r1's shape again
    scanU,   \* scan of the iterator built from shape as is
    scanO,   \* scan of the iterator built from the optimized shape
    expanded, \* the tree QuadsAct.BuildIterator expands a fused shape to
    step,    \* the regular-expression filter call a query makes
    built,   \* what shape.BuildIterator(qs) did: its outcome and backend requests
    heap,    \* backing arrays of the slices the Path builder made
    paths,   \* every Path a builder step has returned, with its shape then
    growth,  \* how append sizes a new backing array in this build
    sortIt,  \* the Sort iterator under scan
    subIt,   \* its sub-iterator
    emitted, \* names of the results Next has returned in this scan
    yielded  \* Result() and TagResults after each Next of this scan

optVars == <<qs, shape, pc, r1, r2, scanU, scanO, expanded, step, built>>
pathVars == <<heap, paths, growth>>
sortVars == <<sortIt, subIt, emitted, yielded>>

vars == <<optVars, pathVars, sortVars>>

-----------------------------------------------------------------------------
(* Sequence helpers *)

Range(s) == {s[i] : i \in 1..Len(s)}

RemoveAt(s, i) == SubSeq(s, 1, i - 1) \o SubSeq(s, i + 1, Len(s))

SeqsUpTo(S, n) == UNION {[1..k -> S] : k \in 0..n}

NonEmptySeqsUpTo(S, n) == UNION {[1..k -> S] : k \in 1..n}

-----------------------------------------------------------------------------
(* The shape algebra: constructors, one per struct of shape.go *)

Nil == [t |-> "nil"]
Null == [t |-> "Null"]
AllNodes == [t |-> "AllNodes"]
Fixed(v) == [t |-> "Fixed", v |-> v]
Lookup(v) == [t |-> "Lookup", v |-> v]
Intersect(c) == [t |-> "Intersect", c |-> c]
Union(c) == [t |-> "Union", c |-> c]
Except(nodes, all) == [t |-> "Except", Nodes |-> nodes, All |-> all]
Filter(from, filters) == [t |-> "Filter", From |-> from, Filters |-> filters]
Count(values) == [t |-> "Count", Values |-> values]
QuadFilter(dir, values) == [Dir |-> dir, Values |-> values]
Quads(f) == [t |-> "Quads", f |-> f]
QuadDirection(dir, quads) == [t |-> "QuadDirection", Dir |-> dir, Quads |-> quads]
QuadsAct(result, filter, save) ==
    [t |-> "QuadsAct", Result |-> result, Filter |-> filter, Save |-> save]
Page(from, skip, limit) == [t |-> "Page", From |-> from, Skip |-> skip, Limit |-> limit]
Unique(from) == [t |-> "Unique", From |-> from]
Save(from, tags) == [t |-> "Save", From |-> from, Tags |-> tags]
Optional(from) == [t |-> "Optional", From |-> from]

\* graph.Value: a ref minted by the backend, or fetchedValue{quad.Int(n)}, a
\* pre-fetched ref that wraps an integer value
Ref(n) == [ref |-> n]
FetchedInt(n) == [fetched |-> n]

\* the outcome of a call that panics (a method call on a nil Shape)
Panic == [t |-> "panic"]

\* the result pair of Optimize
Res(s, opt) == [s |-> s, opt |-> opt]

PanicRes == Res(Panic, FALSE)

IsNull(s) == s.t \in {"nil", "Null"}

\* qs.ValueOf(v) # nil
Resolves(store, v) == v \in DOMAIN store

ValueOf(store, v) == store[v]

-----------------------------------------------------------------------------
(* The optimizer: one operator per Optimize method of shape.go.  Every one  *)
(* returns Res(shape, changed); a panic in a child call propagates.        *)

RECURSIVE Optimize(_, _)

NullOptimize(s, store) == Res(Nil, TRUE)

AllNodesOptimize(s, store) == Res(s, FALSE)

FixedOptimize(s, store) ==
    IF Len(s.v) = 0 THEN Res(Nil, TRUE) ELSE Res(s, FALSE)

\* Lookup.resolve: the refs of the values the backend knows, in input order
RECURSIVE resolveVals(_, _)
resolveVals(v, store) ==
    IF v = <<>> THEN <<>>
    ELSE (IF Resolves(store, Head(v)) THEN <<ValueOf(store, Head(v))>> ELSE <<>>)
         \o resolveVals(Tail(v), store)

\* a faulty resolve that wraps an empty result in a Fixed instead of returning nil
resolveAlwaysFixed(s, store) == Fixed(resolveVals(s.v, store))

resolve(s, store) ==
    LET vals == resolveVals(s.v, store)
    IN IF Len(vals) = 0 THEN Nil ELSE Fixed(vals)

LookupOptimize(s, store) == Res(resolve(s, store), TRUE)

ExceptOptimize(s, store) ==
    LET rn == Optimize(s.Nodes, store)
        nodes == IF rn.opt THEN rn.s ELSE s.Nodes
        hasAll == s.All.t # "nil"
        ra == IF hasAll THEN Optimize(s.All, store) ELSE Res(Nil, FALSE)
        all == IF hasAll /\ ra.opt THEN ra.s ELSE s.All
        opt == rn.opt \/ (hasAll /\ ra.opt)
    IN IF rn.s = Panic \/ ra.s = Panic THEN PanicRes
       ELSE IF IsNull(nodes) THEN Res(AllNodes, TRUE)
       ELSE IF nodes.t = "AllNodes" THEN Res(Nil, TRUE)
       ELSE Res(Except(nodes, all), opt)

FilterOptimize(s, store) ==
    IF IsNull(s.From) THEN Res(Nil, TRUE)
    ELSE LET r == Optimize(s.From, store)
         IN IF r.s = Panic THEN PanicRes
            ELSE IF IsNull(r.s) THEN Res(Nil, TRUE)
            ELSE IF Len(s.Filters) = 0 THEN Res(r.s, TRUE)
            ELSE Res(Filter(r.s, s.Filters), r.opt)

\* a Count that turns into the empty shape when its input is empty
CountEmptyIsNull(s, store) ==
    IF IsNull(s.Values) THEN Res(Nil, TRUE)
    ELSE LET r == Optimize(s.Values, store)
         IN IF r.s = Panic THEN PanicRes
            ELSE IF IsNull(r.s) THEN Res(Nil, TRUE)
            ELSE Res(Count(r.s), r.opt)

CountOptimize(s, store) ==
    IF IsNull(s.Values) THEN Res(Fixed(<<FetchedInt(0)>>), TRUE)
    ELSE LET r == Optimize(s.Values, store)
         IN IF r.s = Panic THEN PanicRes
            ELSE IF IsNull(r.s) THEN Res(Fixed(<<FetchedInt(0)>>), TRUE)
            ELSE Res(Count(r.s), r.opt)

\* the loop of Quads.Optimize from filter i on; nq is the copy written so far
RECURSIVE QuadsLoop(_, _, _, _)
QuadsLoop(nq, i, changed, store) ==
    IF i > Len(nq) THEN Res(Quads(nq), changed)
    ELSE IF nq[i].Values.t = "nil" THEN QuadsLoop(nq, i + 1, changed, store)
    ELSE LET r == Optimize(nq[i].Values, store)
         IN IF r.s = Panic THEN PanicRes
            ELSE IF ~r.opt THEN QuadsLoop(nq, i + 1, changed, store)
            ELSE IF r.s.t = "nil" THEN Res(Nil, TRUE)
            ELSE QuadsLoop([nq EXCEPT ![i].Values = r.s], i + 1, TRUE, store)

QuadsOptimize(s, store) == QuadsLoop(s.f, 1, FALSE, store)

\* One: the single ref of a one-element Fixed
IsOne(s) == s.t = "Fixed" /\ Len(s.v) = 1

\* a faulty save[dir] = tags that forgets the tags already bound to dir
OverwriteTags(save, dir, tags) == (dir :> tags) @@ save

\* save[f.Dir] = append(save[f.Dir], sv.Tags...)
AppendTags(save, dir, tags) ==
    (dir :> ((IF dir \in DOMAIN save THEN save[dir] ELSE <<>>) \o tags)) @@ save

\* the fusion loop of QuadDirection.Optimize over the filters q from i on
RECURSIVE FuseLoop(_, _, _, _, _)
FuseLoop(q, i, filt, save, n) ==
    IF i > Len(q) THEN [bail |-> FALSE, filt |-> filt, save |-> save, n |-> n]
    ELSE LET f == q[i]
         IN IF IsOne(f.Values)
            THEN IF f.Dir \in DOMAIN filt
                 THEN [bail |-> TRUE, filt |-> filt, save |-> save, n |-> n]
                 ELSE FuseLoop(q, i + 1, (f.Dir :> f.Values.v[1]) @@ filt, save, n + 1)
            ELSE IF f.Values.t = "Save" /\ f.Values.From.t = "AllNodes"
            THEN FuseLoop(q, i + 1, filt, AppendTags(save, f.Dir, f.Values.Tags), n + 1)
            ELSE FuseLoop(q, i + 1, filt, save, n)

QuadDirectionOptimize(s, store) ==
    IF IsNull(s.Quads) THEN Res(Nil, TRUE)
    ELSE LET r == Optimize(s.Quads, store)
             qd == IF r.opt THEN r.s ELSE s.Quads
             me == QuadDirection(s.Dir, qd)
         IN IF r.s = Panic THEN PanicRes
            ELSE IF qd.t # "Quads" THEN Res(me, r.opt)
            ELSE IF Len(qd.f) = 1 /\ qd.f[1].Dir = s.Dir THEN Res(qd.f[1].Values, TRUE)
            ELSE LET fl == FuseLoop(qd.f, 1, <<>>, <<>>, 0)
                 IN IF fl.bail THEN Res(me, r.opt)
                    ELSE IF fl.n = Len(qd.f)
                    THEN Res(QuadsAct(s.Dir, fl.filt, fl.save), TRUE)
                    ELSE Res(me, r.opt)

QuadsActOptimize(s, store) == Res(s, FALSE)

\* first pass of Intersect.Optimize: optimize the children from i on
RECURSIVE IntersectPass1(_, _, _, _)
IntersectPass1(s, i, opt, store) ==
    IF i > Len(s) THEN [ret |-> FALSE, res |-> PanicRes, s |-> s, opt |-> opt]
    ELSE IF IsNull(s[i]) THEN [ret |-> TRUE, res |-> Res(Nil, TRUE), s |-> s, opt |-> opt]
    ELSE LET r == Optimize(s[i], store)
         IN IF r.s = Panic THEN [ret |-> TRUE, res |-> PanicRes, s |-> s, opt |-> opt]
            ELSE IF ~r.opt THEN IntersectPass1(s, i + 1, opt, store)
            ELSE IF IsNull(r.s)
            THEN [ret |-> TRUE, res |-> Res(Nil, TRUE), s |-> s, opt |-> TRUE]
            ELSE IntersectPass1([s EXCEPT ![i] = r.s], i + 1, TRUE, store)

\* second pass of Intersect.Optimize from child i on: remove AllNodes, collect
\* Quads into quads (hasQuads: quads # nil) and Fixed into fixed, splice Intersects
RECURSIVE IntersectPass2(_, _, _, _, _, _)
IntersectPass2(s, i, quads, hasQuads, fixed, opt) ==
    IF i > Len(s)
    THEN [s |-> s, quads |-> quads, hasQuads |-> hasQuads, fixed |-> fixed, opt |-> opt]
    ELSE LET c == s[i]
             rest == RemoveAt(s, i)
         IN CASE c.t = "AllNodes" ->
                     IntersectPass2(rest, i, quads, hasQuads, fixed, TRUE)
              [] c.t = "Quads" ->
                     IF ~hasQuads
                     THEN IntersectPass2(rest, i, c.f, TRUE, fixed, opt)
                     ELSE IntersectPass2(rest, i, quads \o c.f, TRUE, fixed, TRUE)
              [] c.t = "Fixed" ->
                     IntersectPass2(rest, i, quads, hasQuads, fixed \o c.v, TRUE)
              [] c.t = "Intersect" ->
                     IntersectPass2(rest \o c.c, i, quads, hasQuads, fixed, TRUE)
              [] OTHER ->
                     IntersectPass2(s, i + 1, quads, hasQuads, fixed, opt)

\* the tail of Intersect.Optimize: put the merged Quads last, the merged Fixed
\* first, collapse the empty and the singleton intersect
IntersectFinish(p2, store) ==
    LET rq == IF p2.hasQuads THEN QuadsOptimize(Quads(p2.quads), store) ELSE Res(Nil, FALSE)
        opt == p2.opt \/ (p2.hasQuads /\ rq.opt)
        s1 == IF p2.hasQuads THEN Append(p2.s, rq.s) ELSE p2.s
        s2 == IF Len(p2.fixed) # 0 THEN <<Fixed(p2.fixed)>> \o s1 ELSE s1
    IN IF p2.hasQuads /\ rq.s = Panic THEN PanicRes
       ELSE IF p2.hasQuads /\ IsNull(rq.s) THEN Res(Nil, TRUE)
       ELSE IF Len(s2) = 0 THEN Res(Nil, TRUE)
       ELSE IF Len(s2) = 1 THEN Res(s2[1], TRUE)
       ELSE Res(Intersect(s2), opt)

IntersectOptimize(s, store) ==
    LET p1 == IntersectPass1(s.c, 1, FALSE, store)
    IN IF p1.ret THEN p1.res
       ELSE IntersectFinish(IntersectPass2(p1.s, 1, <<>>, FALSE, <<>>, p1.opt), store)

\* first pass of Union.Optimize: optimize the children from i on
RECURSIVE UnionPass1(_, _, _, _)
UnionPass1(s, i, opt, store) ==
    IF i > Len(s) THEN [panic |-> FALSE, s |-> s, opt |-> opt]
    ELSE LET r == Optimize(s[i], store)
         IN IF r.s = Panic THEN [panic |-> TRUE, s |-> s, opt |-> opt]
            ELSE IF ~r.opt THEN UnionPass1(s, i + 1, opt, store)
            ELSE UnionPass1([s EXCEPT ![i] = r.s], i + 1, TRUE, store)

\* second pass of Union.Optimize: drop a Null child at i, then step to i + 1
RECURSIVE UnionPass2(_, _, _)
UnionPass2(s, i, opt) ==
    IF i > Len(s) THEN [s |-> s, opt |-> opt]
    ELSE IF IsNull(s[i]) THEN UnionPass2(RemoveAt(s, i), i + 1, TRUE)
    ELSE UnionPass2(s, i + 1, opt)

UnionOptimize(s, store) ==
    LET p1 == UnionPass1(s.c, 1, FALSE, store)
        p2 == UnionPass2(p1.s, 1, p1.opt)
    IN IF p1.panic THEN PanicRes
       ELSE IF Len(p2.s) = 0 THEN Res(Nil, TRUE)
       ELSE IF Len(p2.s) = 1 THEN Res(p2.s[1], TRUE)
       ELSE Res(Union(p2.s), p2.opt)

PageOptimize(s, store) ==
    IF IsNull(s.From) THEN Res(Nil, TRUE)
    ELSE LET r == Optimize(s.From, store)
             from == IF r.opt THEN r.s ELSE s.From
         IN IF r.s = Panic THEN PanicRes
            ELSE IF s.Skip <= 0 /\ s.Limit <= 0 THEN Res(from, TRUE)
            ELSE Res(Page(from, s.Skip, s.Limit), FALSE)

UniqueOptimize(s, store) ==
    IF IsNull(s.From) THEN Res(Nil, TRUE)
    ELSE LET r == Optimize(s.From, store)
         IN IF r.s = Panic THEN PanicRes
            ELSE IF IsNull(r.s) THEN Res(Nil, TRUE)
            ELSE Res(Unique(r.s), r.opt)

SaveOptimize(s, store) ==
    IF IsNull(s.From) THEN Res(Nil, TRUE)
    ELSE LET r == Optimize(s.From, store)
             from == IF r.opt THEN r.s ELSE s.From
         IN IF r.s = Panic THEN PanicRes
            ELSE IF Len(s.Tags) = 0 THEN Res(from, TRUE)
            ELSE Res(Save(from, s.Tags), r.opt)

OptionalOptimize(s, store) ==
    IF IsNull(s.From) THEN Res(Nil, TRUE)
    ELSE LET r == Optimize(s.From, store)
         IN IF r.s = Panic THEN PanicRes
            ELSE IF IsNull(r.s) THEN Res(Nil, TRUE)
            ELSE Res(Optional(r.s), r.opt)

\* s.Optimize(qs): dispatch on the dynamic type; a call on the nil Shape panics
Optimize(s, store) ==
    CASE s.t = "nil" -> PanicRes
      [] s.t = "Null" -> NullOptimize(s, store)
      [] s.t = "AllNodes" -> AllNodesOptimize(s, store)
      [] s.t = "Fixed" -> FixedOptimize(s, store)
      [] s.t = "Lookup" -> LookupOptimize(s, store)
      [] s.t = "Except" -> ExceptOptimize(s, store)
      [] s.t = "Filter" -> FilterOptimize(s, store)
      [] s.t = "Count" -> CountOptimize(s, store)
      [] s.t = "Quads" -> QuadsOptimize(s, store)
      [] s.t = "QuadDirection" -> QuadDirectionOptimize(s, store)
      [] s.t = "QuadsAct" -> QuadsActOptimize(s, store)
      [] s.t = "Intersect" -> IntersectOptimize(s, store)
      [] s.t = "Union" -> UnionOptimize(s, store)
      [] s.t = "Page" -> PageOptimize(s, store)
      [] s.t = "Unique" -> UniqueOptimize(s, store)
      [] s.t = "Save" -> SaveOptimize(s, store)
      [] s.t = "Optional" -> OptionalOptimize(s, store)

-----------------------------------------------------------------------------
(* Iterator trees: what the BuildIterator methods of shape.go construct.    *)
(* Every iterator carries the tags added to its Tagger.                    *)

ItNull == [k |-> "Null", tags |-> <<>>]
ItPanic == [k |-> "panic", tags |-> <<>>]
ItNodesAll == [k |-> "NodesAll", tags |-> <<>>]
ItQuadsAll == [k |-> "QuadsAll", tags |-> <<>>]
ItFixed(v) == [k |-> "Fixed", v |-> v, tags |-> <<>>]
ItNot(prim, all) == [k |-> "Not", prim |-> prim, all |-> all, tags |-> <<>>]
ItComparison(sub, op, val) ==
    [k |-> "Comparison", sub |-> sub, op |-> op, val |-> val, tags |-> <<>>]
ItCount(sub) == [k |-> "Count", sub |-> sub, tags |-> <<>>]
ItQuadIterator(dir, v) == [k |-> "QuadIterator", dir |-> dir, v |-> v, tags |-> <<>>]
ItLinksTo(sub, dir) == [k |-> "LinksTo", sub |-> sub, dir |-> dir, tags |-> <<>>]
ItHasA(sub, dir) == [k |-> "HasA", sub |-> sub, dir |-> dir, tags |-> <<>>]
ItAnd(subs) == [k |-> "And", subs |-> subs, tags |-> <<>>]
ItOr(subs) == [k |-> "Or", subs |-> subs, tags |-> <<>>]
ItSkip(sub, n) == [k |-> "Skip", sub |-> sub, n |-> n, tags |-> <<>>]
ItLimit(sub, n) == [k |-> "Limit", sub |-> sub, n |-> n, tags |-> <<>>]
ItRegex(sub, re, refs) == [k |-> "Regex", sub |-> sub, re |-> re, refs |-> refs, tags |-> <<>>]
ItUnique(sub) == [k |-> "Unique", sub |-> sub, tags |-> <<>>]
ItOptional(sub) == [k |-> "Optional", sub |-> sub, tags |-> <<>>]

\* it.Tagger().Add(tags...)
TaggerAdd(it, tags) == [it EXCEPT !.tags = @ \o tags]

\* s.BuildIterator(qs); a call on the nil Shape panics
RECURSIVE ShapeBuildIterator(_, _)

\* the iterators of the children of an Intersect or Union
RECURSIVE BuildSubs(_, _)
BuildSubs(c, store) ==
    IF c = <<>> THEN <<>>
    ELSE <<ShapeBuildIterator(Head(c), store)>> \o BuildSubs(Tail(c), store)

AnyPanic(its) == \E i \in 1..Len(its) : its[i] = ItPanic

ExceptBuildIterator(s, store) ==
    LET all == IF s.All.t # "nil" THEN ShapeBuildIterator(s.All, store) ELSE ItNodesAll
        nodes == ShapeBuildIterator(s.Nodes, store)
    IN IF all = ItPanic THEN ItPanic
       ELSE IF IsNull(s.Nodes) THEN all
       ELSE IF nodes = ItPanic THEN ItPanic
       ELSE ItNot(nodes, all)

\* the value filter Regexp{Re, Refs}; a pattern is the set of texts it matches
RegexpFilter(re, refs) == [Op |-> "Regexp", Re |-> re, Refs |-> refs]

\* rit := iterator.NewRegex(it, s.Re, qs); rit.AllowRefs(s.Refs)
RegexpBuildIterator(it, f) == ItRegex(it, f.Re, f.Refs)

RECURSIVE WrapComparisons(_, _)
WrapComparisons(it, filters) ==
    IF filters = <<>> THEN it
    ELSE WrapComparisons(
            IF Head(filters).Op = "Regexp" THEN RegexpBuildIterator(it, Head(filters))
            ELSE ItComparison(it, Head(filters).Op, Head(filters).Val),
            Tail(filters))

FilterBuildIterator(s, store) ==
    IF IsNull(s.From) THEN ItNull
    ELSE LET it == ShapeBuildIterator(s.From, store)
         IN IF it = ItPanic THEN ItPanic ELSE WrapComparisons(it, s.Filters)

CountBuildIterator(s, store) ==
    LET it == IF IsNull(s.Values) THEN ItNull ELSE ShapeBuildIterator(s.Values, store)
    IN IF it = ItPanic THEN ItPanic ELSE ItCount(it)

\* QuadFilter.buildIterator
QuadFilterBuildIterator(f, store) ==
    IF f.Values.t = "nil" THEN ItNull
    ELSE IF IsOne(f.Values) THEN ItQuadIterator(f.Dir, f.Values.v[1])
    ELSE IF f.Dir = "Any" THEN ItPanic
    ELSE LET sub == ShapeBuildIterator(f.Values, store)
         IN IF sub = ItPanic THEN ItPanic ELSE ItLinksTo(sub, f.Dir)

RECURSIVE BuildFilters(_, _)
BuildFilters(f, store) ==
    IF f = <<>> THEN <<>>
    ELSE LET it == QuadFilterBuildIterator(Head(f), store)
         IN IF it = ItPanic THEN <<ItPanic>>
            ELSE <<it>> \o BuildFilters(Tail(f), store)

QuadsBuildIterator(s, store) ==
    IF Len(s.f) = 0 THEN ItQuadsAll
    ELSE LET its == BuildFilters(s.f, store)
         IN IF AnyPanic(its) THEN ItPanic
            ELSE IF Len(its) = 1 THEN its[1]
            ELSE ItAnd(its)

QuadDirectionBuildIterator(s, store) ==
    IF IsNull(s.Quads) THEN ItNull
    ELSE LET sub == ShapeBuildIterator(s.Quads, store)
         IN IF sub = ItPanic THEN ItPanic
            ELSE IF s.Dir = "Any" THEN ItPanic
            ELSE ItHasA(sub, s.Dir)

FixedBuildIterator(s, store) == ItFixed(s.v)

LookupBuildIterator(s, store) ==
    LET f == resolve(s, store)
    IN IF IsNull(f) THEN ItNull ELSE FixedBuildIterator(f, store)

IntersectBuildIterator(s, store) ==
    IF Len(s.c) = 0 THEN ItNull
    ELSE LET sub == BuildSubs(s.c, store)
         IN IF AnyPanic(sub) THEN ItPanic
            ELSE IF Len(sub) = 1 THEN sub[1]
            ELSE ItAnd(sub)

UnionBuildIterator(s, store) ==
    IF Len(s.c) = 0 THEN ItNull
    ELSE LET sub == BuildSubs(s.c, store)
         IN IF AnyPanic(sub) THEN ItPanic
            ELSE IF Len(sub) = 1 THEN sub[1]
            ELSE ItOr(sub)

\* a faulty Page.BuildIterator that limits before it skips
PageLimitFirst(s, store) ==
    IF IsNull(s.From) THEN ItNull
    ELSE LET it == ShapeBuildIterator(s.From, store)
             it1 == IF s.Limit > 0 THEN ItLimit(it, s.Limit) ELSE it
         IN IF it = ItPanic THEN ItPanic
            ELSE IF s.Skip > 0 THEN ItSkip(it1, s.Skip) ELSE it1

\* a faulty Page.BuildIterator that takes a Limit of 0 for an upper bound
PageZeroLimit(s, store) ==
    IF IsNull(s.From) THEN ItNull
    ELSE LET it == ShapeBuildIterator(s.From, store)
             it1 == IF s.Skip > 0 THEN ItSkip(it, s.Skip) ELSE it
         IN IF it = ItPanic THEN ItPanic
            ELSE IF s.Limit >= 0 THEN ItLimit(it1, s.Limit) ELSE it1

PageBuildIterator(s, store) ==
    IF IsNull(s.From) THEN ItNull
    ELSE LET it == ShapeBuildIterator(s.From, store)
             it1 == IF s.Skip > 0 THEN ItSkip(it, s.Skip) ELSE it
         IN IF it = ItPanic THEN ItPanic
            ELSE IF s.Limit > 0 THEN ItLimit(it1, s.Limit) ELSE it1

UniqueBuildIterator(s, store) ==
    IF IsNull(s.From) THEN ItNull
    ELSE LET it == ShapeBuildIterator(s.From, store)
         IN IF it = ItPanic THEN ItPanic ELSE ItUnique(it)

\* a faulty Save.BuildIterator that never adds the tags
SaveForgetsTags(s, store) ==
    IF IsNull(s.From) THEN ItNull ELSE ShapeBuildIterator(s.From, store)

SaveBuildIterator(s, store) ==
    IF IsNull(s.From) THEN ItNull
    ELSE LET it == ShapeBuildIterator(s.From, store)
         IN IF it = ItPanic THEN ItPanic
            ELSE IF Len(s.Tags) # 0 THEN TaggerAdd(it, s.Tags) ELSE it

OptionalBuildIterator(s, store) ==
    IF IsNull(s.From) THEN ItNull
    ELSE LET it == ShapeBuildIterator(s.From, store)
         IN IF it = ItPanic THEN ItPanic ELSE ItOptional(it)

ShapeBuildIterator(s, store) ==
    CASE s.t = "nil" -> ItPanic
      [] s.t = "Null" -> ItNull
      [] s.t = "AllNodes" -> ItNodesAll
      [] s.t = "Fixed" -> FixedBuildIterator(s, store)
      [] s.t = "Lookup" -> LookupBuildIterator(s, store)
      [] s.t = "Except" -> ExceptBuildIterator(s, store)
      [] s.t = "Filter" -> FilterBuildIterator(s, store)
      [] s.t = "Count" -> CountBuildIterator(s, store)
      [] s.t = "Quads" -> QuadsBuildIterator(s, store)
      [] s.t = "QuadDirection" -> QuadDirectionBuildIterator(s, store)
      [] s.t = "Intersect" -> IntersectBuildIterator(s, store)
      [] s.t = "Union" -> UnionBuildIterator(s, store)
      [] s.t = "Page" -> PageBuildIterator(s, store)
      [] s.t = "Unique" -> UniqueBuildIterator(s, store)
      [] s.t = "Save" -> SaveBuildIterator(s, store)
      [] s.t = "Optional" -> OptionalBuildIterator(s, store)

\* if s != nil { s, _ = s.Optimize(qs) }: the shape the tree is built from
BuiltShape(store, s) ==
    IF s.t # "nil" THEN Optimize(s, store).s ELSE s

\* the package function BuildIterator(qs, s): optimize once, then build
BuildIterator(store, s) ==
    LET b == BuiltShape(store, s)
    IN IF b = Panic THEN ItPanic
       ELSE IF IsNull(b) THEN ItNull
       ELSE ShapeBuildIterator(b, store)

-----------------------------------------------------------------------------
(* The iterator runtime (graph/iterator), as the specification's table of   *)
(* operator contracts gives it.  A scan is the sequence of results, each a *)
(* ref with its tag bindings.                                              *)

\* number of nodes the backend stores; their refs are Ref(1) .. Ref(NumNodes)
NumNodes == 2

NodesAll == [i \in 1..NumNodes |-> Ref(i)]

Result(id, tags) == [id |-> id, tags |-> tags]

\* the bindings tag -> id for the tags of one Tagger
TagMap(tags, id) == [tg \in Range(tags) |-> id]

\* iterator.Operator applied to the number a ref stands for
CompareOp(op, n, val) ==
    CASE op = "LT" -> n < val
      [] op = "GT" -> n > val

\* the quad.Value behind each ref of the regular-expression runs: its kind
\* and its text (refs 1 and 3 are an IRI and a blank node named like ref 2)
KindTable == <<"iri", "string", "bnode", "string">>
TextTable == <<"alice", "alice", "alice", "bob">>
KindOf(id) == KindTable[id.ref]
TextOf(id) == TextTable[id.ref]

\* Regex keeps a result when its value is no IRI or blank node, or refs are
\* allowed, and the pattern matches its text
RegexKeeps(it, id) ==
    /\ "ref" \in DOMAIN id /\ id.ref \in DOMAIN KindTable
    /\ it.refs \/ KindOf(id) \notin {"iri", "bnode"}
    /\ TextOf(id) \in it.re

RECURSIVE UniqueIds(_, _)
UniqueIds(rs, seen) ==
    IF rs = <<>> THEN <<>>
    ELSE IF Head(rs).id \in seen THEN UniqueIds(Tail(rs), seen)
    ELSE <<Head(rs)>> \o UniqueIds(Tail(rs), seen \cup {Head(rs).id})

\* Contains on a scanned sub-iterator: the first result with that id
FirstWith(rs, id) == rs[CHOOSE i \in 1..Len(rs) : rs[i].id = id /\ \A j \in 1..(i - 1) : rs[j].id # id]

HasId(rs, id) == \E i \in 1..Len(rs) : rs[i].id = id

RECURSIVE ScanIt(_, _)

\* the join of one primary result r with the secondaries subs[i..]: the empty
\* sequence when a secondary that is not Optional lacks r.id
RECURSIVE JoinOne(_, _, _, _)
JoinOne(r, subs, i, store) ==
    IF i > Len(subs) THEN <<r>>
    ELSE LET sub == subs[i]
             rs == ScanIt(sub, store)
         IN IF HasId(rs, r.id)
            THEN JoinOne(Result(r.id, FirstWith(rs, r.id).tags @@ r.tags), subs, i + 1, store)
            ELSE IF sub.k = "Optional" THEN JoinOne(r, subs, i + 1, store)
            ELSE <<>>

RECURSIVE JoinAll(_, _, _)
JoinAll(prim, subs, store) ==
    IF prim = <<>> THEN <<>>
    ELSE JoinOne(Head(prim), subs, 2, store) \o JoinAll(Tail(prim), subs, store)

RECURSIVE ConcatScans(_, _)
ConcatScans(subs, store) ==
    IF subs = <<>> THEN <<>>
    ELSE ScanIt(Head(subs), store) \o ConcatScans(Tail(subs), store)

ScanCore(it, store) ==
    CASE it.k = "Null" -> <<>>
      [] it.k = "NodesAll" -> [i \in 1..NumNodes |-> Result(NodesAll[i], <<>>)]
      [] it.k = "Fixed" -> [i \in 1..Len(it.v) |-> Result(it.v[i], <<>>)]
      [] it.k = "Not" ->
            LET ex == ScanIt(it.prim, store)
            IN SelectSeq(ScanIt(it.all, store), LAMBDA r : ~HasId(ex, r.id))
      [] it.k = "Comparison" ->
            SelectSeq(ScanIt(it.sub, store),
                      LAMBDA r : "ref" \in DOMAIN r.id /\ CompareOp(it.op, r.id.ref, it.val))
      [] it.k = "Regex" ->
            SelectSeq(ScanIt(it.sub, store), LAMBDA r : RegexKeeps(it, r.id))
      [] it.k = "Count" ->
            <<Result(FetchedInt(Len(ScanIt(it.sub, store))), <<>>)>>
      [] it.k = "And" -> JoinAll(ScanIt(it.subs[1], store), it.subs, store)
      [] it.k = "Or" -> ConcatScans(it.subs, store)
      [] it.k = "Skip" ->
            LET rs == ScanIt(it.sub, store)
            IN SubSeq(rs, it.n + 1, Len(rs))
      [] it.k = "Limit" ->
            LET rs == ScanIt(it.sub, store)
            IN SubSeq(rs, 1, IF it.n < Len(rs) THEN it.n ELSE Len(rs))
      [] it.k = "Unique" -> UniqueIds(ScanIt(it.sub, store), {})
      [] it.k = "Optional" -> ScanIt(it.sub, store)

ScanIt(it, store) ==
    LET rs == ScanCore(it, store)
    IN [i \in 1..Len(rs) |-> Result(rs[i].id, TagMap(it.tags, rs[i].id) @@ rs[i].tags)]

\* the outcome of building and draining an iterator
Scanned(it, store) ==
    IF it = ItPanic THEN [panic |-> TRUE, out |-> <<>>]
    ELSE [panic |-> FALSE, out |-> ScanIt(it, store)]

\* a sequence as a multiset
BagOf(rs) == [x \in Range(rs) |-> Cardinality({i \in 1..Len(rs) : rs[i] = x})]

Ids(rs) == [i \in 1..Len(rs) |-> rs[i].id]

-----------------------------------------------------------------------------
(* The optimizer run: a shape is drawn from a bounded universe, optimized, *)
(* optimized again, and scanned both as built from the shape as is and as  *)
(* built by BuildIterator (which optimizes first).                         *)

\* most children of an Intersect or Union of the universe
MaxKids == 3
\* most values of a Lookup of the universe
MaxLookup == 3

\* "zz" is a value no backend knows
Values == {"a", "b", "zz"}

\* lookupQuadStore maps: which of the query's values the backend resolves
Backends == { ("a" :> Ref(1)) @@ ("b" :> Ref(2)), ("a" :> Ref(1)), ("b" :> Ref(2)) }

Leaves ==
    { Null, AllNodes,
      Fixed(<<Ref(1)>>), Fixed(<<Ref(2)>>), Fixed(<<Ref(1), Ref(2)>>),
      Lookup(<<"a">>), Lookup(<<"zz">>), Lookup(<<"a", "zz">>) }

Wrapped(S) ==
    {Unique(x) : x \in S} \cup {Optional(x) : x \in S} \cup {Count(x) : x \in S}
    \cup {Save(x, tags) : x \in S, tags \in {<<>>, <<"t">>}}
    \cup {Page(x, pg[1], pg[2]) : x \in S, pg \in {<<0, 0>>, <<1, 0>>, <<0, 1>>}}
    \cup {Filter(x, fl) : x \in S, fl \in {<<>>, <<[Op |-> "GT", Val |-> 1]>>}}

SetOps(S, n) ==
    {Intersect(c) : c \in SeqsUpTo(S, n)} \cup {Union(c) : c \in SeqsUpTo(S, n)}

Excepts(S) == {Except(x, y) : x \in S, y \in S \cup {Nil}}

Lookups == {Lookup(v) : v \in SeqsUpTo(Values, MaxLookup)}

Level1 ==
    Leaves \cup Wrapped(Leaves) \cup SetOps(Leaves, MaxKids) \cup Excepts(Leaves)
    \cup Lookups

Inner == Wrapped(Leaves) \cup SetOps(Leaves, 2)

Level2 ==
    Wrapped(SetOps(Leaves, 2))
    \cup UNION { {Intersect(<<x, y>>), Intersect(<<y, x>>), Union(<<x, y>>), Union(<<y, x>>)} :
                 x \in {AllNodes, Fixed(<<Ref(1)>>), Lookup(<<"a">>)}, y \in Inner }

ShapeUniverse == Level1 \cup Level2

NoRes == Res([t |-> "none"], FALSE)
NoBuild == [it |-> [k |-> "none"], req |-> 0]
NoScan == [panic |-> FALSE, out |-> <<>>]
\* the iterators of a run that scans no Sort
NoSort == [impl |-> "none"]
NoSub == [items |-> <<>>]

InitOptimize ==
    /\ qs \in Backends
    /\ shape \in ShapeUniverse
    /\ pc = "start"
    /\ r1 = NoRes
    /\ r2 = NoRes
    /\ scanU = NoScan
    /\ scanO = NoScan
    /\ expanded = Nil /\ built = NoBuild /\ step = Nil
    /\ heap = <<>> /\ paths = <<>> /\ growth = "double"
    /\ sortIt = NoSort /\ subIt = NoSub /\ emitted = <<>> /\ yielded = <<>>

\* got, opt := shape.Optimize(qs)
Optimize1 ==
    /\ pc = "start"
    /\ r1' = Optimize(shape, qs)
    /\ pc' = "opt1"
    /\ UNCHANGED <<qs, shape, r2, scanU, scanO, expanded, step, built>>
    /\ UNCHANGED <<pathVars, sortVars>>

\* the caller re-applies Optimize to the shape it got
Optimize2 ==
    /\ pc = "opt1"
    /\ ~IsNull(r1.s) /\ r1.s # Panic
    /\ r2' = Optimize(r1.s, qs)
    /\ pc' = "opt2"
    /\ UNCHANGED <<qs, shape, r1, scanU, scanO, expanded, step, built>>
    /\ UNCHANGED <<pathVars, sortVars>>

\* drain shape.BuildIterator(qs): the iterator of the shape as is
ScanUnoptimized ==
    /\ pc = "opt2" \/ (pc = "opt1" /\ (IsNull(r1.s) \/ r1.s = Panic))
    /\ scanU' = Scanned(ShapeBuildIterator(shape, qs), qs)
    /\ pc' = "scanU"
    /\ UNCHANGED <<qs, shape, r1, r2, scanO, expanded, step, built>>
    /\ UNCHANGED <<pathVars, sortVars>>

\* drain BuildIterator(qs, shape): the iterator of the optimized shape
ScanOptimized ==
    /\ pc = "scanU"
    /\ scanO' = Scanned(BuildIterator(qs, shape), qs)
    /\ pc' = "done"
    /\ UNCHANGED <<qs, shape, r1, r2, scanU, expanded, step, built>>
    /\ UNCHANGED <<pathVars, sortVars>>

NextOptimize == Optimize1 \/ Optimize2 \/ ScanUnoptimized \/ ScanOptimized

SpecOptimize == InitOptimize /\ [][NextOptimize]_vars

-----------------------------------------------------------------------------
(* Claims about the optimizer *)

\* the shape Optimize leaves s as: its result (s itself when nothing changed)
OptForm(s, store) ==
    LET r == Optimize(s, store)
    IN IF r.opt THEN r.s ELSE s

Optimized == pc \in {"opt1", "opt2", "scanU", "done"}

\* C1: scanning the iterator built from the shape as is and the one built
\* from the optimized shape yield the same multiset of (ref, tag map) pairs.
C1_ScanEquivalence ==
    pc = "done" =>
        /\ scanU.panic = scanO.panic
        /\ BagOf(scanU.out) = BagOf(scanO.out)

\* C2: the non-Null shape a first Optimize returns is a fixed point: optimizing
\* it again reports changed = false and returns an equal shape.
C2_FixedPointInOneStep ==
    pc = "opt2" => (r2.opt = FALSE /\ r2.s = r1.s)

\* C5: the optimized form of Intersect([x, Optional{y}]) yields every result
\* that x yields (so it is not Null when x yields something).
C5_OptionalLeftOuter ==
    (/\ pc = "done"
     /\ shape.t = "Intersect"
     /\ Len(shape.c) = 2
     /\ shape.c[2].t = "Optional")
    => LET xs == Scanned(ShapeBuildIterator(shape.c[1], qs), qs)
       IN /\ ~scanO.panic
          /\ Range(Ids(xs.out)) \subseteq Range(Ids(scanO.out))

\* the children of an Intersect or Union as the first pass leaves them
RECURSIVE OptKids(_, _)
OptKids(c, store) ==
    IF c = <<>> THEN <<>>
    ELSE <<OptForm(Head(c), store)>> \o OptKids(Tail(c), store)

Min(a, b) == IF a < b THEN a ELSE b

\* multiset intersection of two bags
BagMeet(b1, b2) == [x \in DOMAIN b1 \cap DOMAIN b2 |-> Min(b1[x], b2[x])]

\* multiset intersection of the refs of a non-empty sequence of Fixed shapes
RECURSIVE MeetAll(_)
MeetAll(fs) ==
    IF Len(fs) = 1 THEN BagOf(fs[1].v)
    ELSE BagMeet(BagOf(Head(fs).v), MeetAll(Tail(fs)))

IsFixedShape(s) == s.t = "Fixed"

\* C6: Intersect.Optimize merges all Fixed children into one Fixed holding the
\* multiset intersection of their refs, placed first; when that is empty the
\* whole intersect optimizes to Null.
C6_FixedMergedByIntersection ==
    (/\ Optimized
     /\ shape.t = "Intersect"
     /\ \E i \in 1..Len(shape.c) : IsFixedShape(OptForm(shape.c[i], qs)))
    => LET inter == MeetAll(SelectSeq(OptKids(shape.c, qs), IsFixedShape))
       IN \/ IsNull(r1.s)
          \/ /\ DOMAIN inter # {}
             /\ \/ r1.s.t = "Fixed" /\ BagOf(r1.s.v) = inter
                \/ /\ r1.s.t = "Intersect"
                   /\ r1.s.c[1].t = "Fixed"
                   /\ BagOf(r1.s.c[1].v) = inter
                   /\ \A i \in 2..Len(r1.s.c) : r1.s.c[i].t # "Fixed"

\* C7: Union.Optimize removes every Null child, wherever the Nulls are, and
\* returns Null when all children reduce to Null.
C7_UnionDropsEveryNull ==
    (Optimized /\ shape.t = "Union")
    => /\ r1.s # Panic
       /\ r1.s.t = "Union" => \A i \in 1..Len(r1.s.c) : ~IsNull(r1.s.c[i])
       /\ (\A i \in 1..Len(shape.c) : IsNull(OptForm(shape.c[i], qs))) => IsNull(r1.s)

\* C8: Intersect([s]) and Union([s]) optimize to s in its optimized form, for
\* every variant of s.
C8_SingletonCollapse ==
    (Optimized /\ shape.t \in {"Intersect", "Union"} /\ Len(shape.c) = 1)
    => LET o == OptForm(shape.c[1], qs)
       IN IF IsNull(o) THEN IsNull(r1.s) ELSE r1.s = o

\* C9: an Except whose exclude (Nodes) is Null optimizes to its from shape
\* (All); an Except whose from (All) is Null optimizes to AllNodes.
C9_ExceptNeutral ==
    (Optimized /\ shape.t = "Except")
    => /\ (IsNull(shape.Nodes) /\ ~IsNull(shape.All)) => r1.s = OptForm(shape.All, qs)
       /\ (shape.All = Null /\ ~IsNull(shape.Nodes)) => r1.s = AllNodes

\* C10: Lookup(values).Optimize returns a Fixed of exactly the refs of the
\* values the backend resolves, in input order, and Null when none resolves.
C10_LookupResolution ==
    (Optimized /\ shape.t = "Lookup")
    => LET known == SelectSeq(shape.v, LAMBDA v : v \in DOMAIN qs)
       IN /\ r1.opt
          /\ IF known = <<>> THEN IsNull(r1.s)
             ELSE /\ r1.s.t = "Fixed"
                  /\ r1.s.v = [i \in 1..Len(known) |-> qs[known[i]]]

\* a Lookup that mixes a resolved and an unresolved value has been optimized
C10_Witness ==
    /\ pc = "opt1"
    /\ shape.t = "Lookup"
    /\ \E i, j \in 1..Len(shape.v) : shape.v[i] \in DOMAIN qs /\ shape.v[j] \notin DOMAIN qs
    /\ r1.s.t = "Fixed"

-----------------------------------------------------------------------------
(* The Path builder (graph/shape/path.go).  Intersect, Union and            *)
(* Filter.Filters are Go slices: a value holds the backing array arr and   *)
(* the length len; the capacity is the length of heap[arr].  A Path is a   *)
(* struct passed by value, so a step copies the slice header, never the    *)
(* backing array.                                                          *)

\* a slice value of type t (Intersect or Union)
Slice(t, arr, len) == [t |-> t, arr |-> arr, len |-> len]

\* the elements a slice value holds
Elems(h, s) == SubSeq(h[s.arr], 1, s.len)

\* a composite literal T{els...}: a new backing array with cap = len
Alloc(h, t, els) == [h |-> Append(h, els), s |-> Slice(t, Len(h) + 1, Len(els))]

\* the capacity append gives a new backing array: the language only asks for
\* "sufficiently large"; the gc runtime doubles small slices
GrowCap(g, cap, need) == IF g = "double" /\ 2 * cap > need THEN 2 * cap ELSE need

\* append(s, els...): in place when the capacity allows, else in a new array
GoAppend(h, s, els, g) ==
    LET need == s.len + Len(els)
        old == h[s.arr]
    IN IF need <= Len(old)
       THEN [h |-> [h EXCEPT ![s.arr] =
                       [j \in 1..Len(old) |->
                           IF j > s.len /\ j <= need THEN els[j - s.len] ELSE old[j]]],
             s |-> [s EXCEPT !.len = need]]
       ELSE [h |-> Append(h, [j \in 1..GrowCap(g, Len(old), need) |->
                                 IF j <= s.len THEN old[j]
                                 ELSE IF j <= need THEN els[j - s.len] ELSE Nil]),
             s |-> [s EXCEPT !.arr = Len(h) + 1, !.len = need]]

intersect(h, s1, s2, g) ==
    IF s1.t = "AllNodes" THEN [h |-> h, s |-> s2]
    ELSE IF s1.t = "Intersect"
    THEN IF s2.t = "Intersect"
         THEN GoAppend(h, s1, Elems(h, s2), g)
         ELSE GoAppend(h, s1, <<s2>>, g)
    ELSE Alloc(h, "Intersect", <<s1, s2>>)

union(h, s1, s2, g) ==
    IF s1.t = "Union"
    THEN IF s2.t = "Union"
         THEN GoAppend(h, s1, Elems(h, s2), g)
         ELSE GoAppend(h, s1, <<s2>>, g)
    ELSE Alloc(h, "Union", <<s1, s2>>)

\* Path.Intersect: for _, s := range shape { p.root = intersect(p.root, s) }
RECURSIVE IntersectEach(_, _, _, _)
IntersectEach(h, root, shapes, g) ==
    IF shapes = <<>> THEN [h |-> h, s |-> root]
    ELSE LET r == intersect(h, root, Head(shapes), g)
         IN IntersectEach(r.h, r.s, Tail(shapes), g)

\* Path.Union: for _, s := range shape { p.root = union(p.root, s) }
RECURSIVE UnionEach(_, _, _, _)
UnionEach(h, root, shapes, g) ==
    IF shapes = <<>> THEN [h |-> h, s |-> root]
    ELSE LET r == union(h, root, Head(shapes), g)
         IN UnionEach(r.h, r.s, Tail(shapes), g)

\* Path.Filter: the variadic filters are a new slice with cap = len
FilterStep(h, root, filters, g) ==
    IF root.t = "Filter"
    THEN GoAppend(h, root, filters, g)
    ELSE [h |-> Append(h, filters),
          s |-> [t |-> "Filter", From |-> root, arr |-> Len(h) + 1, len |-> Len(filters)]]

NodesFrom(dir, quads) == [t |-> "NodesFrom", Dir |-> dir, Quads |-> quads]

\* buildVia for one argument: nil, or a quad.Value
buildVia(via) == IF via = "nil" THEN AllNodes ELSE Lookup(<<via>>)

\* the quads of Has: filters for the AllNodes shapes are left out
HasQuads(via, nodes, goal) ==
    (IF nodes.t # "AllNodes" THEN <<QuadFilter(goal, nodes)>> ELSE <<>>)
    \o (IF via.t # "AllNodes" THEN <<QuadFilter("Predicate", via)>> ELSE <<>>)

Has(h, from, via, nodes, rev, g) ==
    LET start == IF rev THEN "Object" ELSE "Subject"
        goal == IF rev THEN "Subject" ELSE "Object"
    IN intersect(h, from, NodesFrom(start, HasQuads(via, nodes, goal)), g)

SaveVia(h, from, via, tag, rev, opt, g) ==
    LET nodes == Save(AllNodes, <<tag>>)
        start == IF rev THEN "Object" ELSE "Subject"
        goal == IF rev THEN "Subject" ELSE "Object"
        save == NodesFrom(start, <<QuadFilter(goal, nodes), QuadFilter("Predicate", via)>>)
    IN intersect(h, from, IF opt THEN Optional(save) ELSE save, g)

\* the shape a value denotes: every slice replaced by the elements it holds
RECURSIVE Deref(_, _)
DerefAll(h, els) == [j \in 1..Len(els) |-> Deref(h, els[j])]

Deref(h, s) ==
    CASE s.t \in {"Intersect", "Union"} -> [t |-> s.t, c |-> DerefAll(h, Elems(h, s))]
      [] s.t = "Filter" -> Filter(Deref(h, s.From), Elems(h, s))
      [] s.t \in {"Save", "Unique", "Page", "Optional"} -> [s EXCEPT !.From = Deref(h, @)]
      [] s.t = "Except" -> [s EXCEPT !.From = Deref(h, @), !.Exclude = Deref(h, @)]
      [] s.t = "NodesFrom" ->
            [s EXCEPT !.Quads = [k \in 1..Len(@) |-> [@[k] EXCEPT !.Values = Deref(h, @)]]]
      [] OTHER -> s

\* most Paths a run of the builder returns
MaxPaths == 4
\* a step's receiver is one of the MaxBack newest Paths
MaxBack == 2

\* shapes the caller passes to Intersect, Union and Except
ArgShapes == {Fixed(<<Ref(3)>>), Lookup(<<"b">>)}

\* the argument lists of a variadic Intersect call on paths[i]: two shapes,
\* or the receiver's own shape
IntersectArgs(i) == {<<Fixed(<<Ref(3)>>), Lookup(<<"b">>)>>, <<paths[i].root>>}

\* the argument lists of a Union call
UnionArgs == {<<x>> : x \in ArgShapes}

\* the shape of a Path built before, passed as the one argument of And or Or
PathArgs == {<<paths[k].root>> : k \in 1..Len(paths)}

Comparison(op, val) == [Op |-> op, Val |-> val]

FilterArgs == { <<Comparison("GT", 1)>>, <<Comparison("GT", 1), Comparison("LT", 2)>> }

\* a step returns a Path by value: the new root, recorded with the shape it
\* denotes at that moment, its label context (the receiver's: p is a copy of
\* it), the step that made it and the receiver it was made from
Returned(i, op, res) ==
    /\ heap' = res.h
    /\ paths' = Append(paths, [root |-> res.s, snap |-> Deref(res.h, res.s),
                               labels |-> paths[i].labels, op |-> op, recv |-> i])
    /\ UNCHANGED <<growth, optVars, sortVars>>

CanStep(i) == i \in 1..Len(paths) /\ i > Len(paths) - MaxBack /\ Len(paths) < MaxPaths

\* Start(), StartNodes(1) or Start("a")
InitPath ==
    /\ heap = <<>>
    /\ growth \in {"exact", "double"}
    /\ \E s \in {AllNodes, Fixed(<<Ref(1)>>)} :
          paths = <<[root |-> s, snap |-> s, labels |-> Nil, op |-> "Start", recv |-> 0]>>
    /\ qs = << >> /\ shape = Nil /\ pc = "path"
    /\ r1 = NoRes /\ r2 = NoRes /\ scanU = NoScan /\ scanO = NoScan /\ expanded = Nil /\ built = NoBuild /\ step = Nil
    /\ sortIt = NoSort /\ subIt = NoSub /\ emitted = <<>> /\ yielded = <<>>

PathIs ==
    \E i \in 1..Len(paths), vals \in {<<>>, <<Ref(2)>>} :
        /\ CanStep(i)
        /\ Returned(i, "Is", IF Len(vals) = 0 THEN [h |-> heap, s |-> paths[i].root]
                    ELSE intersect(heap, paths[i].root, Fixed(vals), growth))

PathIsValue ==
    \E i \in 1..Len(paths), vals \in {<<"b">>} :
        /\ CanStep(i)
        /\ Returned(i, "IsValue", IF Len(vals) = 0 THEN [h |-> heap, s |-> paths[i].root]
                    ELSE intersect(heap, paths[i].root, Lookup(vals), growth))

PathFilter ==
    \E i \in 1..Len(paths), filters \in FilterArgs :
        /\ CanStep(i)
        /\ Returned(i, "Filter", FilterStep(heap, paths[i].root, filters, growth))

PathTag ==
    \E i \in 1..Len(paths), tags \in {<<"t">>} :
        /\ CanStep(i)
        /\ Returned(i, "Tag", [h |-> heap,
                     s |-> IF Len(tags) = 0 THEN paths[i].root
                           ELSE Save(paths[i].root, tags)])

PathIntersect ==
    \E i \in 1..Len(paths) : \E shapes \in IntersectArgs(i) \cup PathArgs :
        /\ CanStep(i)
        /\ Returned(i, "Intersect", IntersectEach(heap, paths[i].root, shapes, growth))

PathUnion ==
    \E i \in 1..Len(paths), shapes \in UnionArgs \cup PathArgs :
        /\ CanStep(i)
        /\ Returned(i, "Union", UnionEach(heap, paths[i].root, shapes, growth))

PathExcept ==
    \E i \in 1..Len(paths), s \in {Fixed(<<Ref(3)>>)} :
        /\ CanStep(i)
        /\ Returned(i, "Except", [h |-> heap,
                     s |-> [t |-> "Except", From |-> paths[i].root, Exclude |-> s]])

PathUnique ==
    \E i \in 1..Len(paths) :
        /\ CanStep(i)
        /\ Returned(i, "Unique", [h |-> heap, s |-> Unique(paths[i].root)])

PathPage ==
    \E i \in 1..Len(paths) :
        /\ CanStep(i)
        /\ Returned(i, "Page", [h |-> heap, s |-> Page(paths[i].root, 1, 1)])

\* Path.Has(via, rev, nodes...); with no via and no nodes Has panics
PathHas ==
    \E i \in 1..Len(paths), via \in {"p"}, rev \in {FALSE}, nodes \in {<<>>, <<Ref(2)>>} :
        LET pred == buildVia(via)
            ends == IF Len(nodes) # 0 THEN Fixed(nodes) ELSE AllNodes
        IN /\ CanStep(i)
           /\ Len(HasQuads(pred, ends, "Object")) # 0
           /\ Returned(i, "Has", Has(heap, paths[i].root, pred, ends, rev, growth))

PathSaveOpt ==
    \E i \in 1..Len(paths), rev \in {TRUE}, opt \in BOOLEAN :
        /\ CanStep(i)
        /\ Returned(i, "SaveOpt", SaveVia(heap, paths[i].root, buildVia("p"), "t", rev, opt, growth))

\* buildOut(from, via, labels, tags, in)
buildOut(from, via, labels, tags, in) ==
    LET start == IF in THEN "Object" ELSE "Subject"
        goal == IF in THEN "Subject" ELSE "Object"
        pred == IF Len(tags) # 0 THEN Save(via, tags) ELSE via
    IN NodesFrom(goal,
          (IF from.t # "AllNodes" THEN <<QuadFilter(start, from)>> ELSE <<>>)
          \o (IF pred.t # "AllNodes" THEN <<QuadFilter("Predicate", pred)>> ELSE <<>>)
          \o (IF labels # Nil /\ labels.t # "AllNodes"
              THEN <<QuadFilter("Label", labels)>> ELSE <<>>))

\* func (p Path) LabelContext(via ...quad.Value)
PathLabelContext ==
    \E i \in 1..Len(paths), via \in {<<>>, <<"g">>} :
        /\ CanStep(i)
        /\ heap' = heap
        /\ paths' = Append(paths, [paths[i] EXCEPT
                        !.labels = IF Len(via) = 0 THEN Nil ELSE Lookup(via),
                        !.op = "LabelContext", !.recv = i])
        /\ UNCHANGED <<growth, optVars, sortVars>>

\* func (p Path) Out(via ...interface{})
PathOut ==
    \E i \in 1..Len(paths), via \in {"nil", "p"} :
        /\ CanStep(i)
        /\ Returned(i, "Out", [h |-> heap,
              s |-> buildOut(paths[i].root, buildVia(via), paths[i].labels, <<>>, FALSE)])

\* func (p Path) In(via ...interface{})
PathIn ==
    \E i \in 1..Len(paths), via \in {"p"} :
        /\ CanStep(i)
        /\ Returned(i, "In", [h |-> heap,
              s |-> buildOut(paths[i].root, buildVia(via), paths[i].labels, <<>>, TRUE)])

NextBuilder ==
    \/ PathIs \/ PathIsValue \/ PathFilter \/ PathTag \/ PathIntersect \/ PathUnion
    \/ PathExcept \/ PathUnique \/ PathPage \/ PathHas \/ PathSaveOpt

SpecPath == InitPath /\ [][NextBuilder]_vars

\* traversals under a label context: LabelContext, Out, In, Has, SaveOpt
NextLabels == PathLabelContext \/ PathOut \/ PathIn \/ PathHas \/ PathSaveOpt

SpecLabels == InitPath /\ [][NextLabels]_vars

RECURSIVE LabelCount(_)
RECURSIVE LabelCountAll(_)
\* the number of quad filters on the Label direction in all of the shapes c
LabelCountAll(c) == IF c = <<>> THEN 0 ELSE LabelCount(Head(c)) + LabelCountAll(Tail(c))

\* the number of quad filters on the Label direction anywhere in the shape s
LabelCount(s) ==
    CASE s.t \in {"Intersect", "Union"} -> LabelCountAll(s.c)
      [] s.t \in {"Filter", "Save", "Unique", "Page", "Optional"} -> LabelCount(s.From)
      [] s.t = "Except" -> LabelCount(s.From) + LabelCount(s.Exclude)
      [] s.t = "NodesFrom" ->
            Cardinality({k \in 1..Len(s.Quads) : s.Quads[k].Dir = "Label"})
            + LabelCountAll([k \in 1..Len(s.Quads) |-> s.Quads[k].Values])
      [] OTHER -> 0

\* C18: every traversal step (out, in, has, save, saveOpt, saveR) made under a
\* label context constrains the label direction of the quads it follows, and
\* a step made under no label context adds no label constraint.
C18_LabelContextConstrainsTraversals ==
    \A j \in 1..Len(paths) :
        paths[j].op \in {"Out", "In", "Has", "SaveOpt"} =>
            LabelCount(paths[j].snap) =
                LabelCount(paths[paths[j].recv].snap)
                + (IF paths[paths[j].recv].labels # Nil THEN 1 ELSE 0)

\* C3: builder steps never change a Path returned earlier: the shape of every
\* Path stays as it was when the step returned it, so two paths derived from
\* one p by an Intersect, Union or Filter step each keep their own child.
C3_ReturnedPathsKeepTheirShape ==
    \A i \in 1..Len(paths) : Deref(heap, paths[i].root) = paths[i].snap

-----------------------------------------------------------------------------
(* The Sort iterators: Sort of graph/iterator/sort.go, which buffers on    *)
(* the first Next, and the scanner sortNext of the later Sort.  A name's   *)
(* String() is a sequence of character codes; Go compares strings          *)
(* bytewise.                                                               *)

\* most results the sub-iterator holds
MaxItems == 3

\* namer.NameOf(id).String() for the refs 1..4: "b", "a", "ab", "a"
NameTable == << <<2>>, <<1>>, <<1, 2>>, <<1>> >>

NameOf(id) == NameTable[id.ref]

\* v[i].str < v[j].str
RECURSIVE StrLess(_, _)
StrLess(a, b) ==
    IF b = <<>> THEN FALSE
    ELSE IF a = <<>> THEN TRUE
    ELSE IF Head(a) # Head(b) THEN Head(a) < Head(b)
    ELSE StrLess(Tail(a), Tail(b))

\* one result of the sub-iterator: its ref, its tags and the tags of its
\* alternative paths
SubItem(i) ==
    [ id |-> Ref(i),
      tags |-> [tg \in {"x"} |-> Ref(i)],
      paths |-> IF i = 1 THEN <<[tg \in {"x"} |-> Ref(2)]>> ELSE <<>> ]

SubItems == {SubItem(i) : i \in DOMAIN NameTable}

\* the sub-iterator: its results, the Next call that fails (0: none), how
\* many results and paths of the current result it has handed out, and
\* whether its Next has been called after its Close, and how often its Close
\* has been called
NewSub(items, failAt) ==
    [items |-> items, failAt |-> failAt, pos |-> 0, path |-> 0, err |-> FALSE,
     closed |-> FALSE, afterClose |-> FALSE, closes |-> 0]

\* subIt.Next returns true
SubHasNext(s) == ~s.closed /\ ~s.err /\ s.pos < Len(s.items) /\ s.failAt # s.pos + 1

\* subIt after a Next call: a failure is latched and later calls return false
SubNext(s) ==
    IF SubHasNext(s) THEN [s EXCEPT !.pos = @ + 1, !.path = 0]
    ELSE IF ~s.closed /\ ~s.err /\ s.failAt = s.pos + 1 THEN [s EXCEPT !.err = TRUE]
    ELSE IF s.closed THEN [s EXCEPT !.afterClose = TRUE]
    ELSE s

SubReset(s) == IF s.closed THEN s ELSE [s EXCEPT !.pos = 0, !.path = 0, !.err = FALSE]

SubClose(s) == [s EXCEPT !.closed = TRUE, !.closes = @ + 1]

\* a faulty sort that leaves the values in the order they were read
LeftAsRead(v) == {v}

\* a faulty sort that loses the value read last
SortedWithoutLast(v) ==
    LET w == SubSeq(v, 1, Len(v) - 1)
    IN { p \in { [i \in 1..Len(w) |-> w[f[i]]] : f \in Permutations(1..Len(w)) } :
           \A i \in 1..(Len(p) - 1) : ~StrLess(p[i + 1].str, p[i].str) }

\* sort.Sort(v) with Less comparing str: some ordering of v that is sorted;
\* the order of equal names is not fixed
SortedPerms(v) ==
    { p \in { [i \in 1..Len(v) |-> v[f[i]]] : f \in Permutations(1..Len(v)) } :
        \A i \in 1..(Len(p) - 1) : ~StrLess(p[i + 1].str, p[i].str) }

\* the loop of getSortedValues in sort.go: Err is read after every result
RECURSIVE SortDrain(_, _)
SortDrain(s, v) ==
    IF SubHasNext(s)
    THEN LET s2 == SubNext(s)
             item == s2.items[s2.pos]
             v2 == Append(v, [id |-> item.id, tags |-> item.tags, str |-> NameOf(item.id)])
         IN IF s2.err THEN [v |-> v2, err |-> TRUE, sub |-> s2] ELSE SortDrain(s2, v2)
    ELSE [v |-> v, err |-> FALSE, sub |-> SubNext(s)]

\* getSortedValues of sort.go: the outcomes (values, error, sub-iterator);
\* subErr tells whether the sub-iterator's Err() was set when the loop ended
getSortedValues(s) ==
    LET d == SortDrain(s, <<>>)
    IN IF d.err THEN {[v |-> d.v, err |-> TRUE, sub |-> d.sub, subErr |-> TRUE]}
       ELSE {[v |-> p, err |-> FALSE, sub |-> SubReset(d.sub), subErr |-> d.sub.err] :
                p \in SortedPerms(d.v)}

\* the loop of the scanner's getSortedValues: every result with its paths
RECURSIVE ScannerDrain(_, _)
ScannerDrain(s, v) ==
    IF SubHasNext(s)
    THEN LET s2 == SubNext(s)
             item == s2.items[s2.pos]
             alts == [j \in 1..Len(item.paths) |-> [id |-> item.id, tags |-> item.paths[j]]]
         IN ScannerDrain([s2 EXCEPT !.path = Len(item.paths)],
                         Append(v, [id |-> item.id, tags |-> item.tags,
                                    str |-> NameOf(item.id), paths |-> alts]))
    ELSE [v |-> v, sub |-> SubNext(s)]

\* getSortedValues of the scanner: Err is read once, after the loop
scannerGetSortedValues(s) ==
    LET d == ScannerDrain(s, <<>>)
    IN IF d.sub.err THEN {[v |-> d.v, err |-> TRUE, sub |-> d.sub, subErr |-> TRUE]}
       ELSE {[v |-> p, err |-> FALSE, sub |-> d.sub, subErr |-> FALSE] : p \in SortedPerms(d.v)}

\* it.ordered: nil, or the buffered values
NilOrdered == [nil |-> TRUE, v |-> <<>>]
Ordered(v) == [nil |-> FALSE, v |-> v]

NoResult == [id |-> Nil, tags |-> <<>>]

\* NewSort(namer, subIt) and newSortNext(namer, subIt)
NewSort(impl) ==
    [ impl |-> impl, ordered |-> NilOrdered, index |-> 0,
      pathIndex |-> IF impl = "sortNext" THEN -1 ELSE 0,
      result |-> NoResult, err |-> FALSE, subErr |-> FALSE ]

\* the loop of getOrderedValues: Err is never read
RECURSIVE OrderDrain(_, _)
OrderDrain(s, v) ==
    IF SubHasNext(s)
    THEN LET s2 == SubNext(s)
             item == s2.items[s2.pos]
         IN OrderDrain(s2, Append(v, [id |-> item.id, tags |-> item.tags,
                                      str |-> NameOf(item.id)]))
    ELSE [v |-> v, sub |-> SubNext(s)]

\* getOrderedValues of order.go: the outcomes (values, sub-iterator)
getOrderedValues(s) ==
    LET d == OrderDrain(s, <<>>)
    IN {[v |-> p, sub |-> SubReset(d.sub)] : p \in SortedPerms(d.v)}

\* NewOrder(qs, subIt) drains the sub-iterator at once, into the values v
NewOrder(v) ==
    [ impl |-> "Order", ordered |-> Ordered(v), index |-> 0, pathIndex |-> 0,
      result |-> NoResult, err |-> FALSE, subErr |-> FALSE ]

\* most Close calls made on one iterator
MaxCloses == 2

InitSort ==
    /\ \E items \in SeqsUpTo(SubItems, MaxItems) : \E failAt \in 0..(Len(items) + 1) :
          \/ \E impl \in {"Sort", "sortNext"} :
                sortIt = NewSort(impl) /\ subIt = NewSub(items, failAt)
          \/ \E g \in getOrderedValues(NewSub(items, failAt)) :
                sortIt = NewOrder(g.v) /\ subIt = g.sub
    /\ emitted = <<>> /\ yielded = <<>>
    /\ qs = << >> /\ shape = Nil /\ pc = "sort"
    /\ r1 = NoRes /\ r2 = NoRes /\ scanU = NoScan /\ scanO = NoScan /\ expanded = Nil /\ built = NoBuild /\ step = Nil
    /\ heap = <<>> /\ paths = <<>> /\ growth = "double"

\* the part of Next both iterators share: hand out ordered[index], if any
Emit(it) ==
    IF it.index < Len(it.ordered.v)
    THEN /\ sortIt' = [it EXCEPT !.result = [id |-> it.ordered.v[it.index + 1].id,
                                             tags |-> it.ordered.v[it.index + 1].tags],
                                 !.index = @ + 1,
                                 !.pathIndex = IF it.impl = "sortNext" THEN -1 ELSE @]
         /\ emitted' = Append(emitted, NameOf(it.ordered.v[it.index + 1].id))
         /\ yielded' = Append(yielded, [id |-> it.ordered.v[it.index + 1].id,
                                        tags |-> it.ordered.v[it.index + 1].tags])
    ELSE /\ sortIt' = it
         /\ UNCHANGED <<emitted, yielded>>

\* (it *Sort) Next of sort.go
SortNext ==
    /\ sortIt.impl = "Sort"
    /\ IF sortIt.ordered.nil
       THEN \E g \in getSortedValues(subIt) :
               /\ subIt' = g.sub
               /\ Emit([sortIt EXCEPT !.ordered = Ordered(g.v), !.err = g.err,
                                       !.subErr = g.subErr])
       ELSE /\ Emit(sortIt)
            /\ UNCHANGED subIt
    /\ UNCHANGED <<optVars, pathVars>>

\* (it *sortNext) Next of the scanner
ScannerNext ==
    /\ sortIt.impl = "sortNext"
    /\ IF sortIt.err THEN UNCHANGED sortVars
       ELSE IF sortIt.ordered.nil
       THEN \E g \in scannerGetSortedValues(subIt) :
               /\ subIt' = g.sub
               /\ LET it == [sortIt EXCEPT !.ordered = [nil |-> g.v = <<>>, v |-> g.v],
                                          !.err = g.err, !.subErr = g.subErr]
                  IN IF g.err THEN sortIt' = it /\ UNCHANGED <<emitted, yielded>> ELSE Emit(it)
       ELSE /\ Emit(sortIt)
            /\ UNCHANGED subIt
    /\ UNCHANGED <<optVars, pathVars>>

\* (it *sortNext) NextPath: the paths of ordered[index]
ScannerNextPath ==
    /\ sortIt.impl = "sortNext"
    /\ sortIt.index < Len(sortIt.ordered.v)
    /\ LET r == sortIt.ordered.v[sortIt.index + 1]
       IN /\ sortIt.pathIndex + 1 < Len(r.paths)
          /\ sortIt' = [sortIt EXCEPT !.pathIndex = @ + 1,
                                      !.result = r.paths[sortIt.pathIndex + 2]]
    /\ UNCHANGED <<subIt, emitted, yielded, optVars, pathVars>>

\* (it *Order) Next: index is advanced before results[index] is handed out
OrderNext ==
    /\ sortIt.impl = "Order"
    /\ IF sortIt.index < Len(sortIt.ordered.v) - 1
       THEN /\ sortIt' = [sortIt EXCEPT
                            !.index = @ + 1,
                            !.result = [id |-> sortIt.ordered.v[sortIt.index + 2].id,
                                        tags |-> sortIt.ordered.v[sortIt.index + 2].tags]]
            /\ emitted' = Append(emitted, NameOf(sortIt.ordered.v[sortIt.index + 2].id))
            /\ yielded' = Append(yielded, [id |-> sortIt.ordered.v[sortIt.index + 2].id,
                                           tags |-> sortIt.ordered.v[sortIt.index + 2].tags])
       ELSE UNCHANGED <<sortIt, emitted, yielded>>
    /\ UNCHANGED <<subIt, optVars, pathVars>>

\* (it *Sort) Reset and (it *Order) Reset: the buffer is kept, the scan
\* starts again
SortReset ==
    /\ sortIt.impl \in {"Sort", "Order"}
    /\ ~subIt.closed
    /\ sortIt' = [sortIt EXCEPT !.result = NoResult, !.index = 0]
    /\ subIt' = SubReset(subIt)
    /\ emitted' = <<>> /\ yielded' = <<>>
    /\ UNCHANGED <<optVars, pathVars>>

\* Close of the three iterators; the scan is over
SortClose ==
    /\ sortIt.impl \in {"Sort", "sortNext", "Order"}
    /\ subIt.closes < MaxCloses
    /\ sortIt' = [sortIt EXCEPT !.ordered = NilOrdered]
    /\ subIt' = SubClose(subIt)
    /\ emitted' = <<>> /\ yielded' = <<>>
    /\ UNCHANGED <<optVars, pathVars>>

NextSort ==
    SortNext \/ ScannerNext \/ ScannerNextPath \/ OrderNext \/ SortReset \/ SortClose

SpecSort == InitSort /\ [][NextSort]_vars

\* C4: the results successive Next calls of a Sort iterator return are in
\* non-decreasing order of NameOf(result).String(), whatever the sub-iterator.
C4_SortedByName ==
    \A i \in 1..(Len(emitted) - 1) : ~StrLess(emitted[i + 1], emitted[i])

\* a scan has returned three results of a sub-iterator that was out of order
C4_Witness ==
    /\ Len(emitted) = 3
    /\ StrLess(NameOf(subIt.items[2].id), NameOf(subIt.items[1].id))
    /\ StrLess(emitted[1], emitted[3])

\* C19: for the Sort of sort.go, when the sub-iterator stops with an error
\* while the results are accumulated, Sort.Err() returns that error, the Next
\* that drained it returns false and no buffered result is emitted later.
C19_SortReportsSubError ==
    (sortIt.impl = "Sort" /\ sortIt.subErr) =>
        /\ sortIt.err
        /\ sortIt.index = 0
        /\ emitted = <<>>

\* C20: after Close no Next or NextPath of a Sort iterator yields a result
\* and the Next of the closed sub-iterator is never called again.
C20_ClosedStaysClosed ==
    subIt.closed =>
        /\ ~subIt.afterClose
        /\ emitted = <<>>

\* Next has returned true for a buffered result that is still in the buffer
AtPosition == sortIt.index >= 1 /\ sortIt.index <= Len(sortIt.ordered.v)

\* C21: for the scanner sortNext, after Next returned the result at sorted
\* position i, NextPath enumerates the alternative bindings recorded for
\* position i and Result() stays the ref of position i.
C21_NextPathStaysOnResult ==
    (sortIt.impl = "sortNext" /\ AtPosition) =>
        /\ sortIt.result.id = sortIt.ordered.v[sortIt.index].id
        /\ sortIt.pathIndex < Len(sortIt.ordered.v[sortIt.index].paths)
        /\ sortIt.pathIndex >= 0 =>
              sortIt.result = sortIt.ordered.v[sortIt.index].paths[sortIt.pathIndex + 1]

\* the scan of a sub-iterator that never fails has handed out its whole buffer
FullScan ==
    /\ sortIt.impl \in {"Sort", "sortNext"}
    /\ ~subIt.closed /\ subIt.failAt = 0
    /\ IF sortIt.impl = "Sort" THEN ~sortIt.ordered.nil ELSE subIt.pos = Len(subIt.items)
    /\ sortIt.index = Len(sortIt.ordered.v)

OrderDone ==
    /\ sortIt.impl = "Order"
    /\ ~subIt.closed /\ subIt.failAt = 0
    /\ sortIt.index >= Len(sortIt.ordered.v) - 1

\* C23: the Order iterator yields every result of its sub-iterator exactly
\* once, in non-decreasing name order starting with the smallest, with the
\* tags of each.
C23_OrderYieldsEveryResult ==
    OrderDone =>
        /\ Len(yielded) = Len(subIt.items)
        /\ BagOf(yielded)
              = BagOf([i \in 1..Len(subIt.items) |->
                          [id |-> subIt.items[i].id, tags |-> subIt.items[i].tags]])

\* C28: Reset returns a Sort iterator of sort.go to the Fresh state: the
\* buffer is discarded with the position, so the next Next accumulates again.
C28_ResetDiscardsBuffer ==
    [][(sortIt.impl = "Sort" /\ SortReset) => sortIt'.ordered = NilOrdered]_vars

\* C29: whatever the operations on a Sort or Order iterator, the Close of its
\* sub-iterator is called at most once, and exactly once after a Close.
C29_SubClosedOnce ==
    /\ subIt.closes <= 1
    /\ subIt.closed <=> subIt.closes = 1

-----------------------------------------------------------------------------
(* The optimizer on quad shapes: QuadDirection over Quads, its fusion into *)
(* QuadsAct and the tree QuadsAct.BuildIterator expands back to.           *)

\* most filters of a Quads of the universe
MaxFilters == 2

QuadDirs == {"Subject", "Predicate", "Object"}

\* the Values a filter of the universe holds; a filter may also hold nil
FilterValues ==
    { Nil, Null, AllNodes, Fixed(<<Ref(1)>>), Fixed(<<Ref(1), Ref(2)>>),
      Lookup(<<"a">>), Lookup(<<"zz">>),
      Save(AllNodes, <<"t">>), Save(AllNodes, <<"u">>), Save(Fixed(<<Ref(1)>>), <<"t">>) }

QuadFilters == {QuadFilter(d, v) : d \in QuadDirs, v \in FilterValues}

QuadUniverse ==
    {QuadDirection(d, Quads(f)) : d \in QuadDirs, f \in SeqsUpTo(QuadFilters, MaxFilters)}
    \cup {QuadDirection(d, q) : d \in QuadDirs, q \in {Nil, Null}}
    \cup Wrapped(Leaves)

InitQuads ==
    /\ qs \in Backends
    /\ shape \in QuadUniverse
    /\ pc = "start"
    /\ r1 = NoRes /\ r2 = NoRes /\ scanU = NoScan /\ scanO = NoScan /\ expanded = Nil /\ built = NoBuild /\ step = Nil
    /\ heap = <<>> /\ paths = <<>> /\ growth = "double"
    /\ sortIt = NoSort /\ subIt = NoSub /\ emitted = <<>> /\ yielded = <<>>

\* the orders in which a range over a map with the keys D may visit them
Orderings(D) ==
    {o \in [1..Cardinality(D) -> D] : \A i, j \in 1..Cardinality(D) : o[i] = o[j] => i = j}

\* QuadsAct.BuildIterator: the QuadDirection it builds when the range over
\* s.Filter visits the directions fo and the range over s.Save visits so
QuadsActTree(s, fo, so) ==
    QuadDirection(s.Result,
        Quads([i \in 1..Len(fo) |-> QuadFilter(fo[i], Fixed(<<s.Filter[fo[i]]>>))]
              \o [i \in 1..Len(so) |-> QuadFilter(so[i], Save(AllNodes, s.Save[so[i]]))]))

\* h := QuadDirection{Dir: s.Result, Quads: q} of QuadsAct.BuildIterator
ExpandQuadsAct ==
    /\ pc = "opt1"
    /\ r1.s.t = "QuadsAct"
    /\ \E fo \in Orderings(DOMAIN r1.s.Filter), so \in Orderings(DOMAIN r1.s.Save) :
          expanded' = QuadsActTree(r1.s, fo, so)
    /\ pc' = "expanded"
    /\ UNCHANGED <<qs, shape, r1, r2, scanU, scanO, step, built, pathVars, sortVars>>

NextQuads == Optimize1 \/ Optimize2 \/ ExpandQuadsAct

SpecQuads == InitQuads /\ [][NextQuads]_vars

\* the child a parent of one of the five kinds optimizes first
ChildOf(s) == IF s.t = "QuadDirection" THEN s.Quads ELSE s.From

\* the child is empty already, or its own Optimize call returns an empty shape
ReducesToNull(c, store) == IsNull(c) \/ IsNull(OptForm(c, store))

\* C11: when the child of a Filter, Unique, Page, Save or QuadDirection reduces
\* to Null when optimized, the parent's one Optimize call returns Null as well.
C11_EmptinessPropagates ==
    (/\ Optimized
     /\ shape.t \in {"Filter", "Unique", "Page", "Save", "QuadDirection"}
     /\ ReducesToNull(ChildOf(shape), qs))
        => IsNull(r1.s)

\* a filter the fusion loop accepts: a singleton Fixed or a Save over AllNodes
Fusable(v) == IsOne(v) \/ (v.t = "Save" /\ v.From.t = "AllNodes")

\* the constant refs the filters f impose on direction d
RefsOn(f, d) ==
    {f[i].Values.v[1] : i \in {j \in 1..Len(f) : f[j].Dir = d /\ IsOne(f[j].Values)}}

RECURSIVE TagsOn(_, _)
\* the tags the filters f bind to direction d, in the order of the filters
TagsOn(f, d) ==
    IF f = <<>> THEN <<>>
    ELSE (IF f[1].Dir = d /\ f[1].Values.t = "Save" THEN f[1].Values.Tags ELSE <<>>)
         \o TagsOn(Tail(f), d)

\* the filters Quads.Optimize leaves to the fusion loop of QuadDirection.Optimize
KeptFilters(s, store) == OptForm(s.Quads, store).f

\* C12: whenever QuadDirection(r, Quads(filters)).Optimize returns a QuadsAct,
\* every filter was a singleton Fixed or a Save over AllNodes, and the tree
\* QuadsAct.BuildIterator expands it to is a QuadDirection(r, Quads(...)) whose
\* filters impose the same constant ref and bind the same tags per direction.
C12_FusionLossless ==
    /\ (Optimized /\ r1.s.t = "QuadsAct") =>
          /\ shape.t = "QuadDirection"
          /\ r1.opt
          /\ \A i \in 1..Len(KeptFilters(shape, qs)) : Fusable(KeptFilters(shape, qs)[i].Values)
    /\ (pc = "expanded") =>
          /\ expanded.t = "QuadDirection"
          /\ expanded.Dir = shape.Dir
          /\ expanded.Quads.t = "Quads"
          /\ \A i \in 1..Len(expanded.Quads.f) : Fusable(expanded.Quads.f[i].Values)
          /\ \A d \in QuadDirs :
                /\ RefsOn(expanded.Quads.f, d) = RefsOn(KeptFilters(shape, qs), d)
                /\ TagsOn(expanded.Quads.f, d) = TagsOn(KeptFilters(shape, qs), d)

\* a fused shape with a constant on one direction and a tag bound on another
\* has been expanded back
C12_Witness ==
    /\ pc = "expanded"
    /\ \E d \in QuadDirs : Cardinality(RefsOn(expanded.Quads.f, d)) = 1
    /\ \E d \in QuadDirs : Len(TagsOn(expanded.Quads.f, d)) = 1

\* C13: QuadDirection(d, Quads([(d, x)])).Optimize returns the optimized form
\* of x with changed = true, and no QuadsAct.
C13_SameDirectionCollapse ==
    (/\ Optimized
     /\ shape.t = "QuadDirection"
     /\ shape.Quads.t = "Quads"
     /\ Len(shape.Quads.f) = 1
     /\ shape.Quads.f[1].Dir = shape.Dir
     /\ shape.Quads.f[1].Values.t # "nil")
        => /\ r1.opt
           /\ IF IsNull(OptForm(shape.Quads.f[1].Values, qs))
              THEN IsNull(r1.s)
              ELSE r1.s = OptForm(shape.Quads.f[1].Values, qs)

-----------------------------------------------------------------------------
(* Paging and tagging: Page and Save shapes over small node shapes, built  *)
(* as they are and through BuildIterator, and drained.                    *)

\* largest Skip and largest Limit of a Page of the universe
MaxSkip == 2
MaxLimit == 3

\* the shapes paged and tagged: from none to four results
PageBases ==
    { Null, AllNodes, Fixed(<<Ref(1), Ref(2), Ref(3), Ref(4)>>),
      Lookup(<<"a", "zz", "b">>), Save(Fixed(<<Ref(2), Ref(1), Ref(2)>>), <<"u">>) }

Pages(S) == {Page(s, k, l) : s \in S, k \in (-1)..MaxSkip, l \in (-1)..MaxLimit}

PageUniverse ==
    Pages(PageBases) \cup Pages(Pages(PageBases))
    \cup {Save(s, tags) : s \in PageBases \cup Pages(PageBases),
                          tags \in {<<>>, <<"t">>, <<"t", "u">>}}

InitPage ==
    /\ qs \in Backends
    /\ shape \in PageUniverse
    /\ pc = "start"
    /\ r1 = NoRes /\ r2 = NoRes /\ scanU = NoScan /\ scanO = NoScan /\ expanded = Nil /\ built = NoBuild /\ step = Nil
    /\ heap = <<>> /\ paths = <<>> /\ growth = "double"
    /\ sortIt = NoSort /\ subIt = NoSub /\ emitted = <<>> /\ yielded = <<>>

SpecPage == InitPage /\ [][NextOptimize]_vars

\* the drained results of s built as it is, and of s built by BuildIterator
ScanAsIs(s, store) == Scanned(ShapeBuildIterator(s, store), store).out
ScanBuilt(s, store) == Scanned(BuildIterator(store, s), store).out

\* a Page of a Page within the bounds the composition is stated for
NestedPage(s) ==
    /\ s.t = "Page" /\ s.From.t = "Page"
    /\ s.From.Skip >= 0 /\ s.Skip >= 0
    /\ s.Limit >= 1 /\ s.From.Limit > s.Skip

\* the single Page a nested Page should be equivalent to
Composed(s) ==
    Page(s.From.From, s.From.Skip + s.Skip, Min(s.From.Limit - s.Skip, s.Limit))

\* C14: for skip1, skip2 >= 0, lim2 >= 1 and lim1 > skip2, scanning
\* Page{Page{s, skip1, lim1}, skip2, lim2} yields the same multiset of refs as
\* scanning Page{s, skip1 + skip2, min(lim1 - skip2, lim2)}.
C14_NestedPagingComposes ==
    (pc = "done" /\ NestedPage(shape)) =>
        /\ ~scanU.panic /\ ~scanO.panic
        /\ BagOf(Ids(scanU.out)) = BagOf(Ids(ScanAsIs(Composed(shape), qs)))
        /\ BagOf(Ids(scanO.out)) = BagOf(Ids(ScanBuilt(Composed(shape), qs)))

\* a nested page whose inner limit cuts the outer window short has been drained
C14_Witness ==
    /\ pc = "done" /\ NestedPage(shape)
    /\ shape.From.Skip > 0 /\ shape.Skip > 0
    /\ shape.From.Limit - shape.Skip < shape.Limit
    /\ Len(scanU.out) = shape.From.Limit - shape.Skip

\* rs without its first k results (all of rs when k <= 0)
DropFirst(rs, k) == IF k > 0 THEN SubSeq(rs, k + 1, Len(rs)) ELSE rs

\* C15: a Page with Limit <= 0 has no upper bound and a Skip <= 0 drops
\* nothing: Page{s, k, 0} yields every result of s after the first k, and a
\* Page with both <= 0 optimizes to s (in its optimized form) and scans as s.
C15_NoLimitNoSkip ==
    /\ (pc = "done" /\ shape.t = "Page" /\ shape.Limit <= 0) =>
          /\ scanU.out = DropFirst(ScanAsIs(shape.From, qs), shape.Skip)
          /\ scanO.out = DropFirst(ScanBuilt(shape.From, qs), shape.Skip)
    /\ (Optimized /\ shape.t = "Page" /\ shape.Limit <= 0 /\ shape.Skip <= 0) =>
          /\ r1.opt
          /\ IF ReducesToNull(shape.From, qs) THEN IsNull(r1.s)
             ELSE r1.s = OptForm(shape.From, qs)

\* a Page with a positive Skip and Limit 0 over more results than it skips
\* has been drained
C15_Witness ==
    /\ pc = "done" /\ shape.t = "Page"
    /\ shape.Limit = 0 /\ shape.Skip > 0
    /\ Len(ScanAsIs(shape.From, qs)) > shape.Skip + 1
    /\ Len(scanU.out) > 1

\* C16: scanning Save{s, tags} yields the refs of s in the same order, each
\* result's tag map that of s extended with every tag bound to the result's
\* own ref; with no tags the scan is that of s.
C16_SaveBindsOwnRef ==
    (pc = "done" /\ shape.t = "Save") =>
        /\ ~scanU.panic /\ ~scanO.panic
        /\ Ids(scanU.out) = Ids(ScanAsIs(shape.From, qs))
        /\ Ids(scanO.out) = Ids(ScanBuilt(shape.From, qs))
        /\ \A i \in 1..Len(scanU.out) :
              /\ DOMAIN scanU.out[i].tags =
                    DOMAIN ScanAsIs(shape.From, qs)[i].tags \cup Range(shape.Tags)
              /\ \A tg \in Range(shape.Tags) : scanU.out[i].tags[tg] = scanU.out[i].id
              /\ \A tg \in DOMAIN ScanAsIs(shape.From, qs)[i].tags \ Range(shape.Tags) :
                    scanU.out[i].tags[tg] = ScanAsIs(shape.From, qs)[i].tags[tg]
        /\ \A i \in 1..Len(scanO.out) :
              /\ DOMAIN scanO.out[i].tags =
                    DOMAIN ScanBuilt(shape.From, qs)[i].tags \cup Range(shape.Tags)
              /\ \A tg \in Range(shape.Tags) : scanO.out[i].tags[tg] = scanO.out[i].id
        /\ (shape.Tags = <<>>) =>
              /\ scanU.out = ScanAsIs(shape.From, qs)
              /\ scanO.out = ScanBuilt(shape.From, qs)

\* a Save with the tag t over a shape that already binds another tag has been
\* drained with results
C16_Witness ==
    /\ pc = "done" /\ shape.t = "Save" /\ shape.Tags = <<"t">>
    /\ Len(scanU.out) > 1
    /\ DOMAIN scanU.out[1].tags = {"t", "u"}

-----------------------------------------------------------------------------
(* Regular-expression filters: Path.Regexp, Path.RegexpWithRefs and the    *)
(* linkedql Filter step with a RegExp operator, built over a fixed set of  *)
(* nodes and iterated.                                                     *)

\* most nodes of the set a regular-expression filter is applied to
MaxRoot == 2

\* the texts each pattern of the universe matches
Patterns == { {"alice"}, {"bob"}, {"alice", "bob"}, {} }

RegexRoots == {Fixed(v) : v \in NonEmptySeqsUpTo({Ref(n) : n \in DOMAIN KindTable}, MaxRoot)}

\* p.Filter(filters...) on a root whose Filters no other Path shares
FilterRoot(root, filters) ==
    IF root.t = "Filter" THEN Filter(root.From, root.Filters \o filters)
    ELSE Filter(root, filters)

\* func (p Path) Regexp(pattern)
Regexp(root, pattern) == FilterRoot(root, <<RegexpFilter(pattern, FALSE)>>)

\* func (p Path) RegexpWithRefs(pattern)
RegexpWithRefs(root, pattern) == FilterRoot(root, <<RegexpFilter(pattern, TRUE)>>)

\* graph/path's RegexWithRefs, the call linkedql makes: a regular-expression
\* filter that allows refs
RegexWithRefs(root, pattern) == FilterRoot(root, <<RegexpFilter(pattern, TRUE)>>)

\* the case *RegExp of Filter.BuildValueIterator
FilterBuildValueIterator(s) ==
    IF s.includeRefs THEN RegexWithRefs(s.from, s.re)
    ELSE RegexWithRefs(s.from, s.re)

RegexSteps ==
    {s \in [api : {"Regexp", "RegexpWithRefs", "linkedql"}, re : Patterns,
            includeRefs : BOOLEAN, from : RegexRoots] :
        /\ s.api = "Regexp" => ~s.includeRefs
        /\ s.api = "RegexpWithRefs" => s.includeRefs}

InitRegexp ==
    /\ qs \in Backends
    /\ step \in RegexSteps
    /\ shape = step.from
    /\ pc = "start"
    /\ r1 = NoRes /\ r2 = NoRes /\ scanU = NoScan /\ scanO = NoScan /\ expanded = Nil /\ built = NoBuild
    /\ heap = <<>> /\ paths = <<>> /\ growth = "double"
    /\ sortIt = NoSort /\ subIt = NoSub /\ emitted = <<>> /\ yielded = <<>>

\* the path call, or the linkedql step, builds the filter over the root
BuildRegexp ==
    /\ pc = "start"
    /\ step # Nil
    /\ shape' = CASE step.api = "Regexp" -> Regexp(shape, step.re)
                  [] step.api = "RegexpWithRefs" -> RegexpWithRefs(shape, step.re)
                  [] step.api = "linkedql" -> FilterBuildValueIterator(step)
    /\ pc' = "built"
    /\ UNCHANGED <<qs, r1, r2, scanU, scanO, expanded, step, built, pathVars, sortVars>>

\* Iterate: BuildIterator(qs, p.root), drained
IterateRegexp ==
    /\ pc = "built"
    /\ scanO' = Scanned(BuildIterator(qs, shape), qs)
    /\ pc' = "done"
    /\ UNCHANGED <<qs, shape, r1, r2, scanU, expanded, step, built, pathVars, sortVars>>

NextRegexp == BuildRegexp \/ IterateRegexp

SpecRegexp == InitRegexp /\ [][NextRegexp]_vars

\* C17: a regular-expression filter asked for with includeRefs (IncludeIRIs)
\* false never yields a node whose value is an IRI or a blank node, through
\* Path.Regexp as well as through the linkedql Filter step.
C17_RefsOnlyWhenAsked ==
    (pc = "done" /\ step # Nil /\ ~step.includeRefs) =>
        \A i \in 1..Len(scanO.out) : KindOf(scanO.out[i].id) \notin {"iri", "bnode"}
-----------------------------------------------------------------------------
(* Claims about BuildIterator and the changed flag *)

\* C24: the shape the package function BuildIterator builds the iterator tree
\* from is a fixed point of the optimizer: optimizing it once more reports
\* changed = false.
C24_BuiltFromFixedPoint ==
    pc = "done" =>
        LET b == BuiltShape(qs, shape)
        IN (~IsNull(b) /\ b # Panic) => ~Optimize(b, qs).opt

\* C25: when Optimize reports changed = false the shape it returns equals the
\* shape it was called on.
C25_ChangedFlagAccurate ==
    (Optimized /\ ~r1.opt /\ r1.s # Panic) => r1.s = shape
-----------------------------------------------------------------------------
(* Claims about flattening in the path builder *)

DirectKids(s, kind) == {j \in 1..Len(s.c) : s.c[j].t = kind}

\* C26: the Intersect root an Intersect/And step returns has no direct child
\* that is itself an Intersect, and the Union root a Union/Or step returns has
\* no direct child that is itself a Union.
C26_FlattenedEagerly ==
    \A i \in 1..Len(paths) :
        /\ (paths[i].op = "Intersect" /\ paths[i].snap.t = "Intersect")
              => DirectKids(paths[i].snap, "Intersect") = {}
        /\ paths[i].op = "Union" => DirectKids(paths[i].snap, "Union") = {}
-----------------------------------------------------------------------------
(* Building quad shapes whose direction is quad.Any: what BuildIterator     *)
(* returns and how many iterators it has asked the backend for by then.    *)

AnyDirs == {"Any", "Subject"}

AnyValues == {Nil, AllNodes, Fixed(<<Ref(1)>>), Fixed(<<Ref(1), Ref(2)>>), Lookup(<<"a">>)}

AnyFilters == {QuadFilter(d, v) : d \in AnyDirs, v \in AnyValues}

AnyUniverse ==
    LET quads == {Quads(f) : f \in SeqsUpTo(AnyFilters, MaxFilters)}
    IN quads
       \cup {QuadDirection(d, q) : d \in AnyDirs, q \in quads \cup {Nil, Null}}

\* the iterators of the backend in a built tree: qs.NodesAllIterator,
\* qs.QuadsAllIterator, qs.QuadIterator
RECURSIVE BackendIts(_)
BackendIts(it) ==
    CASE it.k \in {"NodesAll", "QuadsAll", "QuadIterator"} -> 1
      [] it.k \in {"LinksTo", "HasA"} -> BackendIts(it.sub)
      [] OTHER -> 0

\* the backend iterators QuadFilter.buildIterator has requested when it
\* returns or panics
QuadFilterRequested(f, store) ==
    IF f.Values.t = "nil" THEN 0
    ELSE IF IsOne(f.Values) THEN 1
    ELSE IF f.Dir = "Any" THEN 0
    ELSE BackendIts(ShapeBuildIterator(f.Values, store))

\* Quads.BuildIterator: the filters are built in order, up to the first panic
RECURSIVE FiltersRequested(_, _)
FiltersRequested(f, store) ==
    IF f = <<>> THEN 0
    ELSE QuadFilterRequested(Head(f), store)
         + (IF QuadFilterBuildIterator(Head(f), store) = ItPanic THEN 0
            ELSE FiltersRequested(Tail(f), store))

QuadsRequested(s, store) ==
    IF Len(s.f) = 0 THEN 1 ELSE FiltersRequested(s.f, store)

\* QuadDirection.BuildIterator: s.Quads is built before s.Dir is looked at
QuadDirectionRequested(s, store) ==
    IF IsNull(s.Quads) THEN 0 ELSE QuadsRequested(s.Quads, store)

InitAny ==
    /\ qs \in Backends
    /\ shape \in AnyUniverse
    /\ pc = "start"
    /\ r1 = NoRes /\ r2 = NoRes /\ scanU = NoScan /\ scanO = NoScan /\ expanded = Nil /\ built = NoBuild /\ step = Nil
    /\ heap = <<>> /\ paths = <<>> /\ growth = "double"
    /\ sortIt = NoSort /\ subIt = NoSub /\ emitted = <<>> /\ yielded = <<>>

\* shape.BuildIterator(qs) on the shape as it is
BuildShape ==
    /\ pc = "start"
    /\ built' = [it |-> ShapeBuildIterator(shape, qs),
                 req |-> IF shape.t = "Quads" THEN QuadsRequested(shape, qs)
                         ELSE QuadDirectionRequested(shape, qs)]
    /\ pc' = "tree"
    /\ UNCHANGED <<qs, shape, r1, r2, scanU, scanO, expanded, step, pathVars, sortVars>>

SpecAny == InitAny /\ [][BuildShape]_vars

\* the shape is a QuadDirection whose direction is Any, or a Quads or a
\* QuadDirection over Quads with a filter whose direction is Any
AnyFilterIn(q) == q.t = "Quads" /\ \E j \in 1..Len(q.f) : q.f[j].Dir = "Any"
DirectionIsAny(s) ==
    IF s.t = "Quads" THEN AnyFilterIn(s)
    ELSE s.Dir = "Any" \/ AnyFilterIn(s.Quads)

\* C27: building the iterator of a Quads filter or of a QuadDirection whose
\* direction is Any panics, whatever the filter's values, and no iterator of
\* the backend has been requested by then.
C27_AnyDirectionRejected ==
    (pc = "tree" /\ DirectionIsAny(shape)) =>
        (built.it = ItPanic /\ built.req = 0)

\* what the code does reject before asking the backend for anything: a filter
\* on its own with direction Any and values neither nil nor a single Fixed value
AnyFilterOfManyRejected ==
    (/\ pc = "tree" /\ shape.t = "Quads" /\ Len(shape.f) = 1
     /\ shape.f[1].Dir = "Any" /\ shape.f[1].Values.t # "nil" /\ ~IsOne(shape.f[1].Values))
    => (built.it = ItPanic /\ built.req = 0)
-----------------------------------------------------------------------------
(* Claims about Count *)

CountOfNothing ==
    pc = "done" /\ shape.t = "Count" /\ ReducesToNull(shape.Values, qs)

\* C30: a Count whose input is Null, or optimizes to Null, optimizes to the
\* Fixed shape of the single integer 0 and never to Null, and the scan of the
\* iterator built from it yields exactly one result, the value 0.
C30_CountOfNothingIsZero ==
    CountOfNothing =>
        /\ r1 = Res(Fixed(<<FetchedInt(0)>>), TRUE)
        /\ ~scanO.panic
        /\ Len(scanO.out) = 1
        /\ scanO.out[1].id = FetchedInt(0)

\* a Count over a non-Null input that optimizes to Null has been scanned
C30_Witness ==
    /\ CountOfNothing
    /\ ~IsNull(shape.Values)
    /\ Len(scanO.out) = 1
=============================================================================
